---- MODULE Spec2Model ----
(***************************************************************************)
(* VoxNova Studio (src/voxnova_app.py): the speak/save job runner and the  *)
(* voice catalog of the desktop front-end, as a state machine.             *)
(*                                                                         *)
(* Threads: the Tk UI thread runs one handler at a time (button commands,  *)
(* key bindings and the callbacks posted with root.after); every accepted  *)
(* job runs _run_tts on a thread of its own; every catalog load runs       *)
(* _load_voices on a thread of its own.  A UI handler is one action,       *)
(* except stop_now, which is split at its call of eng.stop(): that call    *)
(* runs while the worker owning the handle may be inside runAndWait().     *)
(* A worker is one action per access to shared state or blocking call.     *)
(*                                                                         *)
(* Strings are sequences of tokens.  An engine handle is named by the      *)
(* number of the job whose pyttsx3.init() call returned it; None is 0.     *)
(* Window geometry, theme, font size, the config file and open_text_file   *)
(* are left out: they touch none of the state modelled here.               *)
(***************************************************************************)
EXTENDS Integers, Sequences, FiniteSets, TLC

VARIABLES
    is_busy,            \* self.is_busy
    status,             \* text of self.status_label
    engine,             \* self.engine: 0 (None) or a handle
    jobs,               \* the live _run_tts threads, by job number
    njobs,              \* number of _run_tts threads started so far
    queue,              \* callbacks posted with root.after(0, ...), FIFO
    ui,                 \* position of the UI thread inside stop_now
    loading,            \* _load_voices threads that have not posted yet
    rescans,            \* number of Rescan clicks so far
    voices,             \* self.voices
    voice_display_map,  \* self.voice_display_map: ordered label -> id pairs
    voice_combo,        \* self.voice_combo: [text, values]
    selected_voice_id,  \* self.selected_voice_id (NoId is None)
    desired_voice_id,   \* self._desired_voice_id (NoId is None)
    filter_var,         \* self.filter_var
    gender_var,         \* self.gender_var
    rejects,            \* the properties whose setProperty the backend rejects
    ev                  \* history: the handler that ran last, if it is a
                        \* submitting one or stop_now, with the content
                        \* of the text box it read

vars == <<is_busy, status, engine, jobs, njobs, queue, ui, loading,
          rescans,
          voices, voice_display_map, voice_combo, selected_voice_id,
          desired_voice_id, filter_var, gender_var, rejects, ev>>

voiceVars == <<voices, voice_display_map, voice_combo, selected_voice_id,
               desired_voice_id, filter_var, gender_var>>

\* ---------------------------------------------------------------- bounds
\* _run_tts threads started in one run of the model
MaxJobs == 2
\* Rescan clicks in one run of the model
MaxRescans == 1

\* ---------------------------------------------------------------- strings
None == 0
\* None where a voice id is expected: a string no backend id equals
NoId == <<"<None>">>
\* None where a file path is expected
NoPath == "<None>"

\* bool(x) of a voice id: None and "" are false
Truthy(vid) == vid # NoId /\ vid # <<>>

\* whitespace characters of str.strip()
Whitespace == {" ", "\n"}

RECURSIVE LStrip(_)
LStrip(s) ==
    IF s # <<>> /\ Head(s) \in Whitespace THEN LStrip(Tail(s)) ELSE s

RECURSIVE RStrip(_)
RStrip(s) ==
    IF s # <<>> /\ s[Len(s)] \in Whitespace
    THEN RStrip(SubSeq(s, 1, Len(s) - 1)) ELSE s

\* str.strip()
Strip(s) == LStrip(RStrip(s))

\* x in s, for strings: s has x as a contiguous run of tokens
IsSubstring(x, s) ==
    \E i \in 1..(Len(s) + 1) :
        /\ i + Len(x) - 1 <= Len(s)
        /\ SubSeq(s, i, i + Len(x) - 1) = x

\* ---------------------------------------------------------------- voices
\* A voice of the backend: name and id are strings, gender is the backend's
\* gender field as one token ("" when absent), languages the first entry of
\* v.languages (<<>> when absent).

\* the label separator " — " as one token
Dash == " - "

\* str.lower() on one token
LowerTok(t) ==
    CASE t = "Zira" -> "zira"
      [] t = "David" -> "david"
      [] t = "Female" -> "female"
      [] t = "Male" -> "male"
      [] t = "Unknown" -> "unknown"
      [] t = "ZIRA" -> "zira"
      [] t = "Anna" -> "anna"
      [] t = "Any" -> "any"
      [] OTHER -> t

\* str.lower()
Lower(s) == [i \in 1..Len(s) |-> LowerTok(s[i])]

\* the words of _detect_gender that occur inside lower-case token t
SubTokens(t) ==
    {t} \cup (IF t = "female" THEN {"male"} ELSE {})

\* needle in s, for a word of _detect_gender: some token of s contains it
StrHas(s, needle) == \E i \in 1..Len(s) : needle \in SubTokens(s[i])

female_tokens == {"female", "zira", "hazel", "samantha", "eva", "catherine"}
male_tokens == {"male", "david", "mark", "alex", "daniel", "fred"}

detect_gender(v) ==
    LET g == LowerTok(v.gender)
        text == Lower(v.name \o <<" ">> \o v.id)
    IN  IF v.gender # "" /\ ("female" \in SubTokens(g) \/ g = "f") THEN "female"
        ELSE IF v.gender # "" /\ ("male" \in SubTokens(g) \/ g = "m") THEN "male"
        ELSE IF StrHas(text, "+f") \/ \E t \in female_tokens : StrHas(text, t)
             THEN "female"
        ELSE IF StrHas(text, "+m") \/ \E t \in male_tokens : StrHas(text, t)
             THEN "male"
        ELSE "unknown"

\* str.capitalize() on the three results of _detect_gender
Capitalize(g) ==
    CASE g = "female" -> "Female"
      [] g = "male" -> "Male"
      [] OTHER -> "Unknown"

\* vid.split(sep)[-1]
LastSegment(s, sep) ==
    LET at == {i \in 1..Len(s) : s[i] = sep}
    IN  IF at = {} THEN s
        ELSE LET last == CHOOSE i \in at : \A k \in at : k <= i
             IN  SubSeq(s, last + 1, Len(s))

short_voice_id(vid) ==
    IF vid = <<>> THEN <<"default">>
    ELSE LET sep == IF \E i \in 1..Len(vid) : vid[i] = ":" THEN ":" ELSE "."
         IN  LastSegment(vid, sep)

\* the label built in the loop of _load_voices
Label(v) ==
    LET lang == IF v.languages # <<>> THEN <<" (">> \o v.languages \o <<")">>
                ELSE <<>>
    IN  v.name \o lang \o <<Dash, Capitalize(detect_gender(v)), Dash>>
            \o short_voice_id(v.id)

\* a Python dict as the sequence of its [key, val] items in insertion order
DictHas(d, k) == \E i \in 1..Len(d) : d[i].key = k

DictGet(d, k, default) ==
    IF DictHas(d, k) THEN d[CHOOSE i \in 1..Len(d) : d[i].key = k].val
    ELSE default

DictPut(d, k, v) ==
    IF DictHas(d, k)
    THEN [i \in 1..Len(d) |-> IF d[i].key = k THEN [key |-> k, val |-> v] ELSE d[i]]
    ELSE Append(d, [key |-> k, val |-> v])

DictKeys(d) == [i \in 1..Len(d) |-> d[i].key]

\* display_list of _load_voices
RECURSIVE DisplayList(_)
DisplayList(vs) ==
    IF vs = <<>> THEN <<>> ELSE <<Label(Head(vs))>> \o DisplayList(Tail(vs))

\* display_to_id of _load_voices
RECURSIVE DisplayToId(_, _)
DisplayToId(vs, d) ==
    IF vs = <<>> THEN d
    ELSE DisplayToId(Tail(vs), DictPut(d, Label(Head(vs)), Head(vs).id))

NoMatch == <<"(No match)">>
NoVoicesFound == <<"(No voices found)">>
LoadingVoices == <<"Loading voices...">>

\* the first label of d, in items() order, whose id is vid; <<>> is None
FirstLabelOf(d, vid) ==
    LET at == {i \in 1..Len(d) : d[i].val = vid}
    IN  IF at = {} THEN <<>>
        ELSE d[CHOOSE i \in at : \A k \in at : i <= k].key

\* gender_ok of _apply_voice_filter
gender_ok(label, gender) ==
    CASE gender = "male" -> IsSubstring(<<Dash, "male", Dash>>, Lower(label))
      [] gender = "female" -> IsSubstring(<<Dash, "female", Dash>>, Lower(label))
      [] OTHER -> TRUE

\* the comprehension of _apply_voice_filter building its list back to front
RECURSIVE SelectSeq2_reversed(_, _, _)
SelectSeq2_reversed(s, q, gender) ==
    IF s = <<>> THEN <<>>
    ELSE LET d == Head(s)
             keep == (q = <<>> \/ IsSubstring(q, Lower(d))) /\ gender_ok(d, gender)
         IN  SelectSeq2_reversed(Tail(s), q, gender) \o (IF keep THEN <<d>> ELSE <<>>)

\* filtered of _apply_voice_filter: the labels of s, in order, that pass
RECURSIVE SelectSeq2(_, _, _)
SelectSeq2(s, q, gender) ==
    IF s = <<>> THEN <<>>
    ELSE LET d == Head(s)
             keep == (q = <<>> \/ IsSubstring(q, Lower(d))) /\ gender_ok(d, gender)
         IN  (IF keep THEN <<d>> ELSE <<>>) \o SelectSeq2(Tail(s), q, gender)

InSeq(x, s) == \E i \in 1..Len(s) : s[i] = x

\* _apply_voice_filter leaving the selection alone when nothing matches
apply_voice_filter_keep_selection(map, fvar, gvar, combo, sel) ==
    IF map = <<>> THEN [combo |-> combo, sel |-> sel]
    ELSE
    LET filtered == SelectSeq2(DictKeys(map), Lower(Strip(fvar)), LowerTok(gvar))
    IN  IF InSeq(combo.text, filtered)
        THEN [combo |-> [text |-> combo.text, values |-> filtered], sel |-> sel]
        ELSE IF filtered # <<>>
        THEN [combo |-> [text |-> filtered[1], values |-> filtered],
              sel |-> DictGet(map, filtered[1], NoId)]
        ELSE [combo |-> [text |-> NoMatch, values |-> <<NoMatch>>], sel |-> sel]

\* _apply_voice_filter: the combo and the selection it leaves, given the map,
\* the two filter variables, the combo and the selection it finds
apply_voice_filter(map, fvar, gvar, combo, sel) ==
    IF map = <<>> THEN [combo |-> combo, sel |-> sel]
    ELSE
    LET q == Lower(Strip(fvar))
        gender == LowerTok(gvar)
        filtered == SelectSeq2(DictKeys(map), q, gender)
        current == combo.text
        values == IF filtered # <<>> THEN filtered ELSE <<NoMatch>>
    IN  IF InSeq(current, filtered)
        THEN [combo |-> [text |-> current, values |-> values], sel |-> sel]
        ELSE IF filtered # <<>>
        THEN [combo |-> [text |-> filtered[1], values |-> values],
              sel |-> DictGet(map, filtered[1], NoId)]
        ELSE [combo |-> [text |-> NoMatch, values |-> values], sel |-> NoId]

\* ---------------------------------------------------------------- inputs
\* The content of the text box is the user's: a handler that reads it finds
\* any of these (nothing, blanks only, text between blanks).
Texts == {<<>>, <<" ">>, <<" ", "a", " ">>}
\* the sample sentence of preview_voice
Sample == <<"preview">>
\* what asksaveasfilename returns: "" when the dialog is cancelled
DialogPaths == {"", "out.wav"}

Zira == [name |-> <<"Zira">>, id |-> <<"tts", ".", "zira">>,
         gender |-> "Female", languages |-> <<>>]
David == [name |-> <<"David">>, id |-> <<"tts", ".", "david">>,
          gender |-> "", languages |-> <<"en">>]

\* a voice whose name holds the label separator around a gender word
Anna == [name |-> <<"Anna", Dash, "Male", Dash, "x">>, id |-> <<"tts", ".", "anna">>,
         gender |-> "Female", languages |-> <<>>]

\* what engine.getProperty("voices") may return and, with it, what
\* engine.getProperty("voice") returns
LoadResults ==
    { [voices |-> <<Zira, David>>, current_id |-> David.id],
      [voices |-> <<David, Anna>>, current_id |-> Anna.id],
      [voices |-> <<>>, current_id |-> NoId] }

\* the backend's answers drawn where jobs run beside the load
LoadResultsSpec == { [voices |-> <<Zira, David>>, current_id |-> David.id] }

\* cfg.get("voice_id", None): nothing saved, or the id saved by a former run
SavedVoiceIds == {NoId, Zira.id}
\* what the user may type into the Search Voice entry
Queries == {<<>>, <<"ZIRA">>}
Genders == {"Any", "Male", "Female"}
\* the properties _run_tts sets on a fresh engine
Props == {"rate", "volume", "voice"}

\* ---------------------------------------------------------------- state
\* a _run_tts thread.  text, mode, file_path are its arguments, local_engine
\* its local; pc is where it stands; out is what the backend left at
\* file_path.  History kept for the properties: stopped (stop_now was invoked
\* while it was the job in flight), notes (completion statuses the UI has
\* shown for it).  The thread leaves jobs when the last callback it posted
\* has run: nothing of it is left in the program then.  Further history:
\* voice_at_accept (self.selected_voice_id when the job was accepted),
\* attempted (the properties setProperty was called for), applied (those the
\* backend took) and voice (the id passed to setProperty("voice"), NoId when
\* it was not called).
NewJob(text, mode, file_path) ==
    [text |-> text, mode |-> mode, file_path |-> file_path, pc |-> "init",
     local_engine |-> None, out |-> "none", stopped |-> FALSE, notes |-> 0,
     voice_at_accept |-> selected_voice_id, attempted |-> {}, applied |-> {},
     voice |-> NoId]

JobIds == DOMAIN jobs
\* the thread of job j has not returned from _run_tts
Executing(j) == jobs[j].pc # "done"
UiIdle == ui.pc = "idle"
UiAtRest == [pc |-> "idle", eng |-> None, ret |-> "none"]

\* the text box was not read
Unread == <<"<unread>">>
Ev(op, content) == [op |-> op, content |-> content]
Other == Ev("other", Unread)

\* _get_text: the content of the text box and the newline Tk ends it with
get_text(content) == content \o <<"\n">>

Init ==
    /\ is_busy = FALSE
    /\ status = "Ready"
    /\ engine = None
    /\ jobs = [j \in {} |-> NewJob(<<>>, "speak", NoPath)]
    /\ njobs = 0
    /\ queue = <<>>
    /\ ui = UiAtRest
    /\ loading = 1
    /\ rescans = 0
    /\ voices = <<>>
    /\ voice_display_map = <<>>
    /\ voice_combo = [text |-> <<>>, values |-> <<LoadingVoices>>]
    /\ selected_voice_id = NoId
    /\ desired_voice_id = selected_voice_id
    /\ filter_var = <<>>
    /\ gender_var = "Any"
    /\ rejects = {}
    /\ ev = Other

\* ---------------------------------------------------------------- UI thread
\* _set_busy(True), _set_status(msg) and the start of the _run_tts thread
Accept(text, mode, file_path, msg) ==
    /\ njobs < MaxJobs
    /\ is_busy' = TRUE
    /\ status' = msg
    /\ njobs' = njobs + 1
    /\ jobs' = (njobs + 1 :> NewJob(text, mode, file_path)) @@ jobs

Reject == UNCHANGED <<is_busy, status, jobs, njobs>>

Warn(msg) == status' = msg /\ UNCHANGED <<is_busy, jobs, njobs>>

\* start_speaking without its test of the text
start_speaking_any_text ==
    /\ UiIdle
    /\ IF is_busy THEN Reject /\ ev' = Ev("start_speaking", Unread)
       ELSE \E content \in Texts :
              /\ ev' = Ev("start_speaking", content)
              /\ Accept(Strip(get_text(content)), "speak", NoPath, "Speaking...")
    /\ UNCHANGED <<engine, queue, ui, loading, rescans>>
    /\ UNCHANGED voiceVars
    /\ UNCHANGED rejects

start_speaking ==
    /\ UiIdle
    /\ IF is_busy THEN Reject /\ ev' = Ev("start_speaking", Unread)
       ELSE \E content \in Texts :
              LET text == Strip(get_text(content))
              IN  /\ ev' = Ev("start_speaking", content)
                  /\ IF text = <<>> THEN Warn("Please type some text")
                     ELSE Accept(text, "speak", NoPath, "Speaking...")
    /\ UNCHANGED <<engine, queue, ui, loading, rescans>>
    /\ UNCHANGED voiceVars
    /\ UNCHANGED rejects

\* start_saving without its test of is_busy
start_saving_while_busy ==
    /\ UiIdle
    /\ \E content \in Texts :
          LET text == Strip(get_text(content))
          IN  /\ ev' = Ev("start_saving", content)
              /\ IF text = <<>> THEN Warn("Please type text to save")
                 ELSE \E file_path \in DialogPaths :
                         IF file_path = "" THEN Reject
                         ELSE Accept(text, "save", file_path, "Saving audio...")
    /\ UNCHANGED <<engine, queue, ui, loading, rescans>>
    /\ UNCHANGED voiceVars
    /\ UNCHANGED rejects

start_saving ==
    /\ UiIdle
    /\ IF is_busy THEN Reject /\ ev' = Ev("start_saving", Unread)
       ELSE \E content \in Texts :
              LET text == Strip(get_text(content))
              IN  /\ ev' = Ev("start_saving", content)
                  /\ IF text = <<>> THEN Warn("Please type text to save")
                     ELSE \E file_path \in DialogPaths :
                             IF file_path = "" THEN Reject
                             ELSE Accept(text, "save", file_path,
                                         "Saving audio...")
    /\ UNCHANGED <<engine, queue, ui, loading, rescans>>
    /\ UNCHANGED voiceVars
    /\ UNCHANGED rejects

preview_voice ==
    /\ UiIdle
    /\ ev' = Ev("preview_voice", Unread)
    /\ IF is_busy THEN Reject
       ELSE IF ~Truthy(selected_voice_id) THEN Warn("Select a voice to preview")
       ELSE Accept(Sample, "speak", NoPath, "Previewing voice...")
    /\ UNCHANGED <<engine, queue, ui, loading, rescans>>
    /\ UNCHANGED voiceVars
    /\ UNCHANGED rejects

\* history: stop_now is invoked; the job in flight, if any, is the last started
StopMark(js) ==
    IF is_busy THEN [js EXCEPT ![njobs].stopped = TRUE] ELSE js

\* history: "Stopped" is shown for the job in flight, if any
StopNote(js) ==
    IF is_busy THEN [js EXCEPT ![njobs].notes = @ + 1] ELSE js

\* stop_now up to and into eng.stop(), for a registered engine
stop_enter(ret) ==
    /\ engine # None
    /\ engine' = None
    /\ ui' = [pc |-> "eng_stop", eng |-> engine, ret |-> ret]
    /\ jobs' = StopMark(jobs)
    /\ UNCHANGED <<is_busy, status>>

\* stop_now with no engine registered: nothing to stop, the handler runs through
stop_no_engine ==
    /\ engine = None
    /\ status' = "Stopped"
    /\ is_busy' = FALSE
    /\ jobs' = StopNote(StopMark(jobs))
    /\ UNCHANGED <<engine, ui>>

\* the Stop button and the Escape key
stop_now ==
    /\ UiIdle
    /\ ev' = Ev("stop_now", Unread)
    /\ (stop_no_engine \/ stop_enter("stop"))
    /\ UNCHANGED <<njobs, queue, loading, rescans>>
    /\ UNCHANGED voiceVars
    /\ UNCHANGED rejects

\* eng.stop() returns and stop_now runs to its end; under clear_text the
\* rest of clear_text follows
eng_stop_return ==
    /\ ui.pc = "eng_stop"
    /\ ev' = Other
    /\ ui' = UiAtRest
    /\ is_busy' = FALSE
    /\ jobs' = StopNote(jobs)
    /\ status' = IF ui.ret = "clear" THEN "Cleared. Ready." ELSE "Stopped"
    /\ UNCHANGED <<engine, njobs, queue, loading, rescans>>
    /\ UNCHANGED voiceVars
    /\ UNCHANGED rejects

\* the Clear button and Ctrl+L
clear_text ==
    /\ UiIdle
    /\ ev' = Other
    /\ IF is_busy /\ engine # None THEN stop_enter("clear")
       ELSE /\ status' = "Cleared. Ready."
            /\ is_busy' = FALSE
            /\ jobs' = StopNote(StopMark(jobs))
            /\ UNCHANGED <<engine, ui>>
    /\ UNCHANGED <<njobs, queue, loading, rescans>>
    /\ UNCHANGED voiceVars
    /\ UNCHANGED rejects

\* apply() of _load_voices, run by the UI thread
apply(cb) ==
    LET values == IF cb.list # <<>> THEN cb.list ELSE <<NoVoicesFound>>
        saved == IF Truthy(desired_voice_id)
                 THEN FirstLabelOf(cb.map, desired_voice_id) ELSE <<>>
        current == IF saved # <<>> THEN saved
                   ELSE FirstLabelOf(cb.map, cb.current_id)
        selected_display ==
            IF current # <<>> THEN current
            ELSE IF values[1] # NoVoicesFound THEN values[1] ELSE <<>>
        combo == [text |-> IF selected_display # <<>> THEN selected_display
                           ELSE NoVoicesFound,
                  values |-> values]
        sel == IF selected_display # <<>>
               THEN DictGet(cb.map, selected_display, NoId) ELSE NoId
        r == apply_voice_filter(cb.map, filter_var, gender_var, combo, sel)
    IN  /\ voice_display_map' = cb.map
        /\ voice_combo' = r.combo
        /\ selected_voice_id' = r.sel
        /\ status' = "Ready"
        /\ UNCHANGED <<is_busy, jobs, voices, desired_voice_id, filter_var,
                       gender_var>>

\* The statuses posted from an except clause: lambda: self._set_status(f"...{e}").
\* Python unbinds e when the except clause ends, which the posting thread does
\* right after root.after returns; the lambda runs on the UI thread, before
\* that (the status is shown) or after it (NameError inside the Tk callback,
\* nothing is shown).
ErrorMsgs == {"Error", "Voice load error"}

\* the Tk main loop runs the callback posted first
run_callback ==
    /\ UiIdle
    /\ queue # <<>>
    /\ ev' = Other
    /\ queue' = Tail(queue)
    /\ LET cb == Head(queue)
       IN  CASE cb.kind = "status" ->
                  \/ /\ status' = cb.msg
                     /\ jobs' = IF cb.job = 0 THEN jobs
                                ELSE [jobs EXCEPT ![cb.job].notes = @ + 1]
                     /\ UNCHANGED is_busy
                     /\ UNCHANGED voiceVars
                  \/ /\ cb.msg \in ErrorMsgs
                     /\ UNCHANGED <<status, jobs, is_busy>>
                     /\ UNCHANGED voiceVars
             [] cb.kind = "busy" ->
                  /\ is_busy' = cb.value
                  /\ jobs' = [k \in JobIds \ {cb.job} |-> jobs[k]]
                  /\ UNCHANGED status
                  /\ UNCHANGED voiceVars
             [] cb.kind = "apply" -> apply(cb)
    /\ UNCHANGED <<engine, njobs, ui, loading, rescans>>
    /\ UNCHANGED rejects

\* the Rescan button
rescan ==
    /\ UiIdle
    /\ rescans < MaxRescans
    /\ ev' = Other
    /\ rescans' = rescans + 1
    /\ loading' = loading + 1
    /\ UNCHANGED <<is_busy, status, engine, jobs, njobs, queue, ui>>
    /\ UNCHANGED voiceVars
    /\ UNCHANGED rejects

\* a write of filter_var (the Search Voice entry) and its trace
on_filter_write ==
    /\ UiIdle
    /\ ev' = Other
    /\ \E q \in Queries :
          /\ q # filter_var
          /\ filter_var' = q
          /\ LET r == apply_voice_filter(voice_display_map, q, gender_var,
                                         voice_combo, selected_voice_id)
             IN  voice_combo' = r.combo /\ selected_voice_id' = r.sel
    /\ UNCHANGED <<is_busy, status, engine, jobs, njobs, queue, ui,
                   loading, rescans, voices, voice_display_map, desired_voice_id,
                   gender_var>>
    /\ UNCHANGED rejects

\* <<ComboboxSelected>> of the Gender combo
on_gender_selected ==
    /\ UiIdle
    /\ ev' = Other
    /\ \E g \in Genders :
          /\ gender_var' = g
          /\ LET r == apply_voice_filter(voice_display_map, filter_var, g,
                                         voice_combo, selected_voice_id)
             IN  voice_combo' = r.combo /\ selected_voice_id' = r.sel
    /\ UNCHANGED <<is_busy, status, engine, jobs, njobs, queue, ui,
                   loading, rescans, voices, voice_display_map, desired_voice_id,
                   filter_var>>
    /\ UNCHANGED rejects

\* <<ComboboxSelected>> of the Voice combo, which _set_busy(True) disables
on_voice_change ==
    /\ UiIdle
    /\ ~is_busy
    /\ ev' = Other
    /\ \E i \in 1..Len(voice_combo.values) :
          LET display == voice_combo.values[i]
          IN  /\ voice_combo' = [voice_combo EXCEPT !.text = display]
              /\ selected_voice_id' = DictGet(voice_display_map, display, NoId)
    /\ UNCHANGED <<is_busy, status, engine, jobs, njobs, queue, ui,
                   loading, rescans, voices, voice_display_map, desired_voice_id,
                   filter_var, gender_var>>
    /\ UNCHANGED rejects

\* ---------------------------------------------------------------- workers
StatusCb(msg, j) == [kind |-> "status", msg |-> msg, job |-> j]
BusyCb(j) == [kind |-> "busy", value |-> FALSE, job |-> j]

\* root.after(0, ...) of the except clause of _run_tts
PostError(j) ==
    /\ queue' = Append(queue, StatusCb("Error", j))
    /\ jobs' = [jobs EXCEPT ![j].pc = "finally"]

\* the setProperty calls of _run_tts: each is in a try of its own whose
\* except passes, so a rejected one stops nothing; voice is set only when
\* self.selected_voice_id, read here by the worker, is not None or ""
SetProperties(job) ==
    LET called == {"rate", "volume"} \cup
                  (IF Truthy(selected_voice_id) THEN {"voice"} ELSE {})
    IN  [job EXCEPT !.attempted = called,
                    !.applied = called \ rejects,
                    !.voice = IF Truthy(selected_voice_id) THEN selected_voice_id
                              ELSE NoId]

\* tts_init with one try around the three setProperty calls: the first
\* rejected one ends the job
tts_init_one_try(j) ==
    /\ jobs[j].pc = "init"
    /\ ev' = Other
    /\ \/ /\ SetProperties(jobs[j]).attempted \cap rejects = {}
          /\ jobs' = [jobs EXCEPT ![j] = SetProperties([jobs[j] EXCEPT
                                         !.pc = "register", !.local_engine = j])]
          /\ UNCHANGED queue
       \/ /\ SetProperties(jobs[j]).attempted \cap rejects # {}
          /\ queue' = Append(queue, StatusCb("Error", j))
          /\ jobs' = [jobs EXCEPT ![j].pc = "finally", ![j].local_engine = j]
       \/ PostError(j)
    /\ UNCHANGED <<is_busy, status, engine, njobs, ui, loading, rescans>>
    /\ UNCHANGED voiceVars
    /\ UNCHANGED rejects

\* pyttsx3.init() and the setProperty calls: the handle is local until it is
\* registered, the one shared read is selected_voice_id
tts_init(j) ==
    /\ jobs[j].pc = "init"
    /\ ev' = Other
    /\ \/ /\ jobs' = [jobs EXCEPT ![j] = SetProperties([jobs[j] EXCEPT
                                         !.pc = "register", !.local_engine = j])]
          /\ UNCHANGED queue
       \/ PostError(j)
    /\ UNCHANGED <<is_busy, status, engine, njobs, ui, loading, rescans>>
    /\ UNCHANGED voiceVars
    /\ UNCHANGED rejects

\* with self.engine_lock: self.engine = local_engine; then say or save_to_file
\* and the entry into runAndWait
tts_register(j) ==
    /\ jobs[j].pc = "register"
    /\ ev' = Other
    /\ engine' = jobs[j].local_engine
    /\ \/ jobs' = [jobs EXCEPT ![j].pc = "wait"] /\ UNCHANGED queue
       \/ PostError(j)
    /\ UNCHANGED <<is_busy, status, njobs, ui, loading, rescans>>
    /\ UNCHANGED voiceVars
    /\ UNCHANGED rejects

\* what _run_tts posts once runAndWait has returned without raising
report_success(j, out) ==
    /\ queue' = Append(queue, StatusCb(IF jobs[j].mode = "speak" THEN "Done"
                                       ELSE "Saved as", j))
    /\ jobs' = [jobs EXCEPT ![j].pc = "finally", ![j].out = out]

\* runAndWait returns (the utterance ended, or it was stopped) or raises; the
\* backend has by then written the file, or left none or an empty one
tts_runAndWait(j) ==
    /\ jobs[j].pc = "wait"
    /\ ev' = Other
    /\ \/ \E out \in (IF jobs[j].mode = "save" THEN {"ok", "empty"} ELSE {"none"}) :
             report_success(j, out)
       \/ PostError(j)
    /\ UNCHANGED <<is_busy, status, engine, njobs, ui, loading, rescans>>
    /\ UNCHANGED voiceVars
    /\ UNCHANGED rejects

\* the finally clause calling _set_busy(False) itself instead of posting it
tts_finally_direct(j) ==
    /\ jobs[j].pc = "finally"
    /\ ev' = Other
    /\ engine' = IF engine = jobs[j].local_engine THEN None ELSE engine
    /\ is_busy' = FALSE
    /\ jobs' = [k \in JobIds \ {j} |-> jobs[k]]
    /\ UNCHANGED <<status, queue, njobs, ui, loading, rescans>>
    /\ UNCHANGED voiceVars
    /\ UNCHANGED rejects

\* the finally clause without its test of self.engine is local_engine
tts_finally_unregister_any(j) ==
    /\ jobs[j].pc = "finally"
    /\ ev' = Other
    /\ engine' = None
    /\ queue' = Append(queue, BusyCb(j))
    /\ jobs' = [jobs EXCEPT ![j].pc = "done"]
    /\ UNCHANGED <<is_busy, status, njobs, ui, loading, rescans>>
    /\ UNCHANGED voiceVars
    /\ UNCHANGED rejects

\* the finally clause: unregister the handle if it is still the registered
\* one, then post _set_busy(False)
tts_finally(j) ==
    /\ jobs[j].pc = "finally"
    /\ ev' = Other
    /\ engine' = IF engine = jobs[j].local_engine THEN None ELSE engine
    /\ queue' = Append(queue, BusyCb(j))
    /\ jobs' = [jobs EXCEPT ![j].pc = "done"]
    /\ UNCHANGED <<is_busy, status, njobs, ui, loading, rescans>>
    /\ UNCHANGED voiceVars
    /\ UNCHANGED rejects

\* a _load_voices thread: it asks the backend, stores self.voices, builds the
\* labels and posts apply; or the backend raises and it posts the error
load_from(results) ==
    /\ loading > 0
    /\ ev' = Other
    /\ loading' = loading - 1
    /\ \/ \E r \in results :
             /\ voices' = r.voices
             /\ queue' = Append(queue, [kind |-> "apply",
                                        map |-> DisplayToId(r.voices, <<>>),
                                        list |-> DisplayList(r.voices),
                                        current_id |-> r.current_id])
       \/ /\ queue' = Append(queue, StatusCb("Voice load error", 0))
          /\ UNCHANGED voices
    /\ UNCHANGED <<is_busy, status, engine, jobs, njobs, ui, rescans,
                   voice_display_map, voice_combo, selected_voice_id,
                   desired_voice_id, filter_var, gender_var>>
    /\ UNCHANGED rejects

\* _load_voices beside the jobs
load_voices == load_from(LoadResultsSpec)
\* _load_voices with every answer of the backend
load_voices_any == load_from(LoadResults)

\* ---------------------------------------------------------------- system
Next ==
    \/ start_speaking
    \/ start_saving
    \/ preview_voice
    \/ stop_now
    \/ eng_stop_return
    \/ clear_text
    \/ run_callback
    \/ load_voices
    \/ \E j \in JobIds : tts_init(j)
    \/ \E j \in JobIds : tts_register(j)
    \/ \E j \in JobIds : tts_runAndWait(j)
    \/ \E j \in JobIds : tts_finally(j)

Spec == Init /\ [][Next]_vars

\* runs in which at most FewJobs _run_tts threads are started
FewJobs == 1
Few == njobs' <= FewJobs

NextFew ==
    \/ (start_speaking /\ Few)
    \/ (start_saving /\ Few)
    \/ (preview_voice /\ Few)
    \/ stop_now
    \/ eng_stop_return
    \/ clear_text
    \/ run_callback
    \/ load_voices
    \/ \E j \in JobIds : tts_init(j)
    \/ \E j \in JobIds : tts_register(j)
    \/ \E j \in JobIds : tts_runAndWait(j)
    \/ \E j \in JobIds : tts_finally(j)

SpecFew == Init /\ [][NextFew]_vars

\* the catalog alone: loads, rescans and the three voice controls, from any
\* saved voice id
InitVoices ==
    /\ is_busy = FALSE
    /\ status = "Ready"
    /\ engine = None
    /\ jobs = [j \in {} |-> NewJob(<<>>, "speak", NoPath)]
    /\ njobs = 0
    /\ queue = <<>>
    /\ ui = UiAtRest
    /\ loading = 1
    /\ rescans = 0
    /\ voices = <<>>
    /\ voice_display_map = <<>>
    /\ voice_combo = [text |-> <<>>, values |-> <<LoadingVoices>>]
    /\ selected_voice_id \in SavedVoiceIds
    /\ desired_voice_id = selected_voice_id
    /\ filter_var = <<>>
    /\ gender_var = "Any"
    /\ rejects = {}
    /\ ev = Other

NextVoices ==
    \/ load_voices_any
    \/ run_callback
    \/ rescan
    \/ on_filter_write
    \/ on_gender_selected
    \/ on_voice_change

SpecVoices == InitVoices /\ [][NextVoices]_vars

\* one job beside the voice controls that stay enabled while it runs, and
\* the voice combo before it
NextJobVoice ==
    \/ (start_speaking /\ Few)
    \/ on_filter_write
    \/ on_gender_selected
    \/ on_voice_change
    \/ run_callback
    \/ load_voices
    \/ \E j \in JobIds : tts_init(j)
    \/ \E j \in JobIds : tts_register(j)
    \/ \E j \in JobIds : tts_runAndWait(j)
    \/ \E j \in JobIds : tts_finally(j)

SpecJobVoice == Init /\ [][NextJobVoice]_vars

\* a backend that rejects any of the properties; jobs without Stop
InitProps ==
    /\ is_busy = FALSE
    /\ status = "Ready"
    /\ engine = None
    /\ jobs = [j \in {} |-> NewJob(<<>>, "speak", NoPath)]
    /\ njobs = 0
    /\ queue = <<>>
    /\ ui = UiAtRest
    /\ loading = 1
    /\ rescans = 0
    /\ voices = <<>>
    /\ voice_display_map = <<>>
    /\ voice_combo = [text |-> <<>>, values |-> <<LoadingVoices>>]
    /\ selected_voice_id = NoId
    /\ desired_voice_id = selected_voice_id
    /\ filter_var = <<>>
    /\ gender_var = "Any"
    /\ rejects \in SUBSET Props
    /\ ev = Other

NextProps ==
    \/ (start_speaking /\ Few)
    \/ (start_saving /\ Few)
    \/ run_callback
    \/ load_voices
    \/ \E j \in JobIds : tts_init(j)
    \/ \E j \in JobIds : tts_register(j)
    \/ \E j \in JobIds : tts_runAndWait(j)
    \/ \E j \in JobIds : tts_finally(j)

SpecProps == InitProps /\ [][NextProps]_vars

\* Speak and Stop alone: the jobs that can overlap, and their handles
NextPair ==
    \/ start_speaking
    \/ stop_now
    \/ eng_stop_return
    \/ run_callback
    \/ \E j \in JobIds : tts_init(j)
    \/ \E j \in JobIds : tts_register(j)
    \/ \E j \in JobIds : tts_runAndWait(j)
    \/ \E j \in JobIds : tts_finally(j)

SpecPair == Init /\ [][NextPair]_vars

\* ---------------------------------------------------------------- claims
Submits == {"start_speaking", "start_saving", "preview_voice"}

\* C1: at most one _run_tts thread is executing at any time.
C1_SingleFlight == Cardinality({j \in JobIds : Executing(j)}) <= 1

\* C2: a submission made while is_busy changes nothing: no thread is started
\* and is_busy, the status, the registered engine and the jobs in flight stay.
C2_BusySubmitRejected ==
    [][(ev'.op \in Submits /\ is_busy) =>
          /\ is_busy' = is_busy
          /\ status' = status
          /\ engine' = engine
          /\ njobs' = njobs
          /\ jobs' = jobs
          /\ queue' = queue]_vars

\* a submission has just been turned away while a job is executing: the
\* status is still the one the job in flight set
C2_Witness ==
    /\ ev.op = "start_saving"
    /\ is_busy
    /\ status = "Speaking..."
    /\ \E j \in JobIds : Executing(j)

\* C3: stop_now with is_busy false and no engine registered changes neither
\* is_busy nor the status.
C3_IdleStopIsNoOp ==
    [][(ev'.op = "stop_now" /\ ~is_busy /\ engine = None) =>
          (is_busy' = is_busy /\ status' = status)]_vars

\* C4: a save job whose backend call returned without raising and left no
\* file, or an empty one, is not reported as saved.
C4_EmptyOutputIsFailure ==
    \A j \in JobIds :
        jobs[j].out = "empty" => ~InSeq(StatusCb("Saved as", j), queue)

\* C5: start_speaking and start_saving on a blank text start no thread, leave
\* is_busy false and show a warning.
Warnings == {"Please type some text", "Please type text to save"}

C5_BlankTextRejected ==
    [][(/\ ev'.op \in {"start_speaking", "start_saving"}
        /\ ~is_busy
        /\ Strip(get_text(ev'.content)) = <<>>) =>
          /\ is_busy' = FALSE
          /\ njobs' = njobs
          /\ jobs' = jobs
          /\ engine' = engine
          /\ queue' = queue
          /\ status' \in Warnings]_vars

\* Save was asked with blanks only in the text box, before any job
C5_Witness ==
    /\ ev = Ev("start_saving", <<" ">>)
    /\ status = "Please type text to save"
    /\ ~is_busy
    /\ njobs = 0

\* C6: when the last callback of a job has run, the UI has been shown exactly
\* one completion status for it (Stopped, or the one its thread posted).
C6_OneCompletionNote ==
    [][\A j \in JobIds : j \notin DOMAIN jobs' => jobs[j].notes = 1]_vars

\* C7: stop_now invoked while the job in flight has not yet returned from
\* runAndWait enters eng.stop() on the handle of that job.
C7_StopCancelsJobInFlight ==
    [][(/\ ev'.op = "stop_now"
        /\ is_busy
        /\ njobs \in JobIds
        /\ jobs[njobs].pc \in {"init", "register", "wait"}) =>
          (ui'.pc = "eng_stop" /\ ui'.eng = njobs)]_vars

\* C8: is_busy is true whenever a thread of an accepted job is executing;
\* stated for the jobs on which stop_now was never invoked.
C8_BusyWhileExecuting ==
    \A j \in JobIds : (Executing(j) /\ ~jobs[j].stopped) => is_busy

\* C9: eng.stop() never runs on a handle while the thread that owns the
\* handle is inside runAndWait on it.
C9_HandleMutex ==
    ~(ui.pc = "eng_stop" /\ ui.eng \in JobIds /\ jobs[ui.eng].pc = "wait")

\* C10: a step of a _run_tts or _load_voices thread changes none of is_busy,
\* the status, the label map, the voice combo and the selected voice.
WorkerStep ==
    \/ load_voices
    \/ \E j \in JobIds : tts_init(j)
    \/ \E j \in JobIds : tts_register(j)
    \/ \E j \in JobIds : tts_runAndWait(j)
    \/ \E j \in JobIds : tts_finally(j)

C10_WorkersOnlyPost ==
    [][WorkerStep =>
          UNCHANGED <<is_busy, status, voice_display_map, voice_combo,
                      selected_voice_id>>]_vars

\* both kinds of thread have posted and nothing they posted has run yet: the
\* UI still shows the job as busy and the catalog as not loaded
C10_Witness ==
    /\ is_busy
    /\ voice_display_map = <<>>
    /\ \E i \in 1..Len(queue) : queue[i].kind = "busy"
    /\ \E i \in 1..Len(queue) : queue[i].kind = "apply"

\* the UI thread runs apply() of a load
ApplyStep == queue # <<>> /\ Head(queue).kind = "apply" /\ queue' = Tail(queue)

\* the ids of a label map
MapIds(d) == {d[i].val : i \in 1..Len(d)}

\* C11: when the result of a reload is applied over a catalog already shown,
\* with the empty filter and facet Any, the id selected just before stays
\* selected if the new catalog has it, and else the first entry of the new
\* catalog is selected.
C11_ReloadKeepsSelection ==
    [][(/\ ApplyStep
        /\ voice_display_map # <<>>
        /\ Head(queue).map # <<>>
        /\ Strip(filter_var) = <<>>
        /\ gender_var = "Any") =>
          selected_voice_id' =
              IF selected_voice_id \in MapIds(Head(queue).map)
              THEN selected_voice_id
              ELSE Head(queue).map[1].val]_vars

\* C12: the voice id a worker passes to the engine is the one that was
\* selected when its job was accepted; stated for the jobs accepted with a
\* voice selected.
C12_RequestFixedAtSubmission ==
    \A j \in JobIds :
        (jobs[j].attempted # {} /\ Truthy(jobs[j].voice_at_accept)) =>
            jobs[j].voice = jobs[j].voice_at_accept

\* C13: when the set_busy(False) a job's worker posted has run, so that the
\* job has returned the runner to idle, a status has been shown for the job:
\* the one its worker posted, or Stopped.
C13_JobEndsWithStatus ==
    [][\A j \in JobIds : j \notin DOMAIN jobs' => jobs[j].notes >= 1]_vars

\* C14: whatever properties the backend rejects, a worker whose
\* pyttsx3.init() returned has called setProperty for rate, for volume and,
\* when a voice is selected, for voice, and goes on to register its handle
\* and to say or save_to_file.
C14_RejectedPropertyTolerated ==
    [][\A j \in JobIds :
          (jobs[j].pc = "init" /\ j \in DOMAIN jobs' /\ jobs'[j].local_engine # None) =>
              /\ jobs'[j].pc = "register"
              /\ jobs'[j].attempted = {"rate", "volume"} \cup
                     (IF Truthy(selected_voice_id) THEN {"voice"} ELSE {})]_vars

\* a job whose rate, volume and voice were all rejected has posted Done
C14_Witness ==
    /\ rejects = Props
    /\ \E j \in JobIds :
          /\ jobs[j].attempted = Props
          /\ jobs[j].applied = {}
          /\ InSeq(StatusCb("Done", j), queue)

\* a is b with some entries left out
RECURSIVE IsSubsequence(_, _)
IsSubsequence(a, b) ==
    IF a = <<>> THEN TRUE
    ELSE IF b = <<>> THEN FALSE
    ELSE IF Head(a) = Head(b) THEN IsSubsequence(Tail(a), Tail(b))
    ELSE IsSubsequence(a, Tail(b))

\* the voice combo lists what the filter left
Filtered == voice_display_map # <<>> /\ voice_combo.values # <<NoMatch>>

\* C15: of a non-empty catalog the voice combo lists, with the empty query
\* and facet Any, every label in the order of the catalog, and with any
\* query and facet a subsequence of that order.
C15_FilterKeepsOrder ==
    /\ (voice_display_map # <<>> /\ Strip(filter_var) = <<>> /\ gender_var = "Any")
          => voice_combo.values = DictKeys(voice_display_map)
    /\ Filtered => IsSubsequence(voice_combo.values, DictKeys(voice_display_map))

\* the whole catalog of two voices is listed, and after a query one of them
C15_Witness ==
    /\ Len(voice_display_map) = 2
    /\ \/ filter_var = <<>> /\ gender_var = "Any" /\ Len(voice_combo.values) = 2
       \/ filter_var = <<"ZIRA">> /\ voice_combo.values = <<Label(Zira)>>

\* the voices any load may return
KnownVoices == UNION {{r.voices[i] : i \in 1..Len(r.voices)} : r \in LoadResults}

\* C16: with the empty query and facet Male (Female) the voice combo lists
\* only labels of voices that _detect_gender classified male (female).
C16_FacetMatchesClassifier ==
    (Filtered /\ Strip(filter_var) = <<>> /\ gender_var \in {"Male", "Female"}) =>
        \A i \in 1..Len(voice_combo.values) :
            \A v \in KnownVoices :
                Label(v) = voice_combo.values[i] =>
                    detect_gender(v) = LowerTok(gender_var)

\* no _run_tts thread is executing
NoWorker == \A j \in JobIds : ~Executing(j)

\* C17: self.engine is None whenever no worker is executing, and the
\* finally clause of a worker changes self.engine only from that worker's
\* own handle, to None.
C17_EngineReference ==
    [][/\ NoWorker' => engine' = None
       /\ \A j \in JobIds :
             (jobs[j].pc = "finally" /\ j \in DOMAIN jobs' /\ jobs'[j].pc = "done") =>
                 \/ engine' = engine
                 \/ engine = jobs[j].local_engine /\ engine' = None]_vars

\* the first job, stopped, has finished and left the handle of the second
\* job registered
C17_Witness ==
    /\ 1 \in JobIds /\ 2 \in JobIds
    /\ jobs[1].pc = "done" /\ jobs[1].local_engine = 1
    /\ jobs[2].pc = "wait"
    /\ engine = 2

\* apply() of some load has run: the combo no longer lists its first values
Applied == voice_combo.values # <<LoadingVoices>>

\* C18: once a load has been applied, selected_voice_id is the id the label
\* map gives for the label shown in the voice combo, and None when the combo
\* shows "(No match)" or "(No voices found)".
C18_SelectionMatchesDisplay ==
    Applied =>
        IF voice_combo.text \in {NoMatch, NoVoicesFound}
        THEN selected_voice_id = NoId
        ELSE /\ DictHas(voice_display_map, voice_combo.text)
             /\ selected_voice_id = DictGet(voice_display_map, voice_combo.text, NoId)

\* nothing matches the facet: the combo shows "(No match)" over a catalog
C18_Witness ==
    /\ gender_var = "Female"
    /\ voice_display_map # <<>>
    /\ voice_combo.text = NoMatch
    /\ selected_voice_id = NoId
====
